---- MODULE Spec2Model ----
(***************************************************************************)
(* skinview3d: the joint rig (src/src/model.ts, first SkinObject /         *)
(* PlayerObject definitions) and the viewer's animation dispatch           *)
(* (src/src/viewer.ts).                                                    *)
(*                                                                         *)
(* Numbers: every length and angle of the source is kept as an integer     *)
(* count of 1e-7 units (Scale), so 1.9 is 19000000 and 0.2617994 rad is    *)
(* 2617994.  Only equality, negation and sums of these values are used.    *)
(***************************************************************************)
EXTENDS Integers, Sequences, FiniteSets, TLC

\* ------------------------------------------------------------------ numbers
Scale == 10000000
Units(n) == n * Scale
Tenths(n) == n * (Scale \div 10)

\* const CapeDefaultAngle = (10.8 * Math.PI) / 180  = 0.1884955592...
CapeDefaultAngle == 1884956
\* Math.PI
PiAngle == 31415927
\* 0.2617994, the rest angle of the elytra wings
WingAngle == 2617994
\* 0.01, "to avoid z-fighting"
WingYAngle == 100000

Zero3 == <<0, 0, 0>>
One3 == <<Units(1), Units(1), Units(1)>>

\* ------------------------------------------------------------------ handles
\* The BodyPart groups of SkinObject.
SkinParts ==
    {"head", "body",
     "rightUpperArm", "leftUpperArm", "rightUpperLeg", "leftUpperLeg",
     "rightLowerArm", "leftLowerArm", "rightLowerLeg", "leftLowerLeg"}

\* The pivot groups of SkinObject.
Pivots ==
    {"rightUpperArmPivot", "leftUpperArmPivot", "rightLowerArmPivot", "leftLowerArmPivot",
     "rightUpperLegPivot", "leftUpperLegPivot", "rightLowerLegPivot", "leftLowerLegPivot"}

\* The elbow and knee groups of SkinObject.
Joints == {"rightElbow", "leftElbow", "rightKnee", "leftKnee"}

\* Every Object3D of a PlayerObject whose position / rotation an animation can write:
\* the player itself, the skin root, the skin's groups, the cape, the elytra and its wings.
Handles ==
    {"player", "skin", "cape", "elytra", "leftWing", "rightWing"}
        \cup SkinParts \cup Pivots \cup Joints

\* The arm meshes whose scale the model listeners set (inner layer, outer layer "2").
ArmMeshes ==
    {"rightUpperArmMesh", "rightForearmUpperMesh", "rightForearmLowerMesh",
     "rightUpperArm2Mesh", "rightForearmUpper2Mesh", "rightForearmLower2Mesh",
     "leftUpperArmMesh", "leftForearmUpperMesh", "leftForearmLowerMesh",
     "leftUpperArm2Mesh", "leftForearmUpper2Mesh", "leftForearmLower2Mesh"}

InnerArmMeshes ==
    {"rightUpperArmMesh", "rightForearmUpperMesh", "rightForearmLowerMesh",
     "leftUpperArmMesh", "leftForearmUpperMesh", "leftForearmLowerMesh"}

\* The meshes of the lower arm BodyParts (inner layer, outer layer "2"), which no
\* model listener touches.
LowerArmMeshes ==
    {"rightLowerArmMesh", "rightLowerArm2Mesh", "leftLowerArmMesh", "leftLowerArm2Mesh"}

InnerLowerArmMeshes == {"rightLowerArmMesh", "leftLowerArmMesh"}

\* Every mesh of an arm segment.
AllArmMeshes == ArmMeshes \cup LowerArmMeshes

\* The width of a mesh's BoxGeometry in tenths: new BoxGeometry() is 1 wide, the lower
\* arm boxes are BoxGeometry(4, 4, 4) and BoxGeometry(4.5, 4.5, 4.5).
BoxWidth(m) ==
    IF m \in InnerLowerArmMeshes THEN 40
    ELSE IF m \in LowerArmMeshes THEN 45
    ELSE 10

\* The meshes of the inner layer (built with layer1Material or layer1MaterialBiased).
InnerMeshes ==
    {"headMesh", "bodyMesh",
     "rightUpperArmMesh", "rightForearmUpperMesh", "rightForearmLowerMesh", "rightLowerArmMesh",
     "leftUpperArmMesh", "leftForearmUpperMesh", "leftForearmLowerMesh", "leftLowerArmMesh",
     "rightUpperLegMesh", "rightLowerLegUpperMesh", "rightLowerLegLowerMesh", "rightLowerLegMesh",
     "leftUpperLegMesh", "leftLowerLegUpperMesh", "leftLowerLegLowerMesh", "leftLowerLegMesh"}

\* The meshes of the outer layer (built with layer2Material or layer2MaterialBiased).
OuterMeshes ==
    {"head2Mesh", "body2Mesh",
     "rightUpperArm2Mesh", "rightForearmUpper2Mesh", "rightForearmLower2Mesh",
     "rightLowerArm2Mesh",
     "leftUpperArm2Mesh", "leftForearmUpper2Mesh", "leftForearmLower2Mesh", "leftLowerArm2Mesh",
     "rightUpperLeg2Mesh", "rightLowerLegUpper2Mesh", "rightLowerLegLower2Mesh",
     "rightLowerLeg2Mesh",
     "leftUpperLeg2Mesh", "leftLowerLegUpper2Mesh", "leftLowerLegLower2Mesh",
     "leftLowerLeg2Mesh"}

Meshes == InnerMeshes \cup OuterMeshes

\* Every Object3D whose visible flag is kept.
Visibles == Meshes \cup {"skin", "cape", "elytra", "ears"}

\* new BodyPart(innerLayer, outerLayer): the two layers of each BodyPart.
Layers ==
    [head          |-> [innerLayer |-> "headMesh", outerLayer |-> "head2Mesh"],
     body          |-> [innerLayer |-> "bodyMesh", outerLayer |-> "body2Mesh"],
     rightUpperArm |-> [innerLayer |-> "rightUpperArmMesh", outerLayer |-> "rightUpperArm2Mesh"],
     rightLowerArm |-> [innerLayer |-> "rightLowerArmMesh", outerLayer |-> "rightLowerArm2Mesh"],
     leftUpperArm  |-> [innerLayer |-> "leftUpperArmMesh", outerLayer |-> "leftUpperArm2Mesh"],
     leftLowerArm  |-> [innerLayer |-> "leftLowerArmMesh", outerLayer |-> "leftLowerArm2Mesh"],
     rightUpperLeg |-> [innerLayer |-> "rightUpperLegMesh", outerLayer |-> "rightUpperLeg2Mesh"],
     rightLowerLeg |-> [innerLayer |-> "rightLowerLegMesh", outerLayer |-> "rightLowerLeg2Mesh"],
     leftUpperLeg  |-> [innerLayer |-> "leftUpperLegMesh", outerLayer |-> "leftUpperLeg2Mesh"],
     leftLowerLeg  |-> [innerLayer |-> "leftLowerLegMesh", outerLayer |-> "leftLowerLeg2Mesh"]]

\* ------------------------------------------------------------ scene graph
\* A limb whose elbow or knee is added to the skin root instead of the upper pivot.
LimbAdds_jointOnRoot(upper, upperPivot, joint, lowerPivot, lower, um, um2, jm, jm2, lm, lm2) ==
    << <<upperPivot, um>>, <<upperPivot, um2>>,
       <<joint, jm>>, <<joint, jm2>>,
       <<lowerPivot, lm>>, <<lowerPivot, lm2>>,
       <<joint, lowerPivot>>,
       <<"skin", joint>>,
       <<lowerPivot, lower>>,
       <<upper, upperPivot>>,
       <<"skin", upper>> >>

\* The add() calls that build one limb: <<parent, child>>, as the arm code orders them
\* (the leg code adds the knee to the upper pivot before it fills the lower pivot).
LimbAdds(upper, upperPivot, joint, lowerPivot, lower, um, um2, jm, jm2, lm, lm2) ==
    << <<upperPivot, um>>, <<upperPivot, um2>>,
       <<joint, jm>>, <<joint, jm2>>,
       <<lowerPivot, lm>>, <<lowerPivot, lm2>>,
       <<joint, lowerPivot>>,
       <<upperPivot, joint>>,
       <<lowerPivot, lower>>,
       <<upper, upperPivot>>,
       <<"skin", upper>> >>

\* Every add() call of the SkinObject, ElytraObject and PlayerObject constructors.
SceneAdds ==
       << <<"head", "headMesh">>, <<"head", "head2Mesh">>, <<"skin", "head">>,
          <<"body", "bodyMesh">>, <<"body", "body2Mesh">>, <<"skin", "body">> >>
    \o LimbAdds("rightUpperArm", "rightUpperArmPivot", "rightElbow", "rightLowerArmPivot",
                "rightLowerArm", "rightUpperArmMesh", "rightUpperArm2Mesh",
                "rightForearmUpperMesh", "rightForearmUpper2Mesh",
                "rightForearmLowerMesh", "rightForearmLower2Mesh")
    \o LimbAdds("leftUpperArm", "leftUpperArmPivot", "leftElbow", "leftLowerArmPivot",
                "leftLowerArm", "leftUpperArmMesh", "leftUpperArm2Mesh",
                "leftForearmUpperMesh", "leftForearmUpper2Mesh",
                "leftForearmLowerMesh", "leftForearmLower2Mesh")
    \o LimbAdds("rightUpperLeg", "rightUpperLegPivot", "rightKnee", "rightLowerLegPivot",
                "rightLowerLeg", "rightUpperLegMesh", "rightUpperLeg2Mesh",
                "rightLowerLegUpperMesh", "rightLowerLegUpper2Mesh",
                "rightLowerLegLowerMesh", "rightLowerLegLower2Mesh")
    \o LimbAdds("leftUpperLeg", "leftUpperLegPivot", "leftKnee", "leftLowerLegPivot",
                "leftLowerLeg", "leftUpperLegMesh", "leftUpperLeg2Mesh",
                "leftLowerLegUpperMesh", "leftLowerLegUpper2Mesh",
                "leftLowerLegLowerMesh", "leftLowerLegLower2Mesh")
    \o << <<"elytra", "leftWing">>, <<"elytra", "rightWing">>,
          <<"player", "skin">>, <<"player", "cape">>, <<"player", "elytra">>,
          <<"head", "ears">> >>

\* Every Object3D of a PlayerObject.
Nodes == Handles \cup Visibles

\* Object3D.add(child) takes the child from the parent it had: the parents of a node
\* are the parent of the last add() call that gave it one.
Parents(n) ==
    LET hits == {i \in 1..Len(SceneAdds) : SceneAdds[i][2] = n}
    IN  IF hits = {} THEN {}
        ELSE {SceneAdds[CHOOSE i \in hits : \A j \in hits : j <= i][1]}

\* The nodes from which n is reached through at most k child links, n left out.
RECURSIVE AncestorsWithin(_, _)
AncestorsWithin(n, k) ==
    IF k = 0 THEN {}
    ELSE Parents(n) \cup UNION {AncestorsWithin(p, k - 1) : p \in Parents(n)}

\* Every node's ancestors, computed once.
AncestorTable == [n \in Nodes |-> AncestorsWithin(n, Cardinality(Nodes))]

Ancestors(n) == AncestorTable[n]

\* Object3D.traverse from the skin root: the skin and its descendants.
SkinTraverse == {"skin"} \cup {n \in Nodes : "skin" \in Ancestors(n)}

\* SkinObject.getBodyParts(): the BodyParts the traversal meets, the root left out.
SkinObject_getBodyParts == {n \in SkinTraverse \ {"skin"} : n \in SkinParts}

Kinds == {"position", "rotation"}

\* ------------------------------------------------------- writes to a rig
\* A rig is a record [slim, pose, scale, visible, skinMap]: pose[h] = [position,
\* rotation], each a vector <<x, y, z>>; scale[m] is the scale vector of arm mesh m;
\* visible[n] is the visible flag of node n; skinMap is what the texture skin.map
\* shows: "null" (no texture), "placeholder" (the gray canvas) or "image".

\* obj.position.set(x, y, z) / obj.rotation.set(x, y, z)
SetVec(r, h, k, v) == [r EXCEPT !.pose[h][k] = v]

\* obj.position.x = val (axis 1 = x, 2 = y, 3 = z)
SetAxis(r, h, k, i, val) == [r EXCEPT !.pose[h][k][i] = val]

\* A new Object3D: position (0,0,0), rotation (0,0,0), scale (1,1,1).
BlankRig ==
    [slim  |-> FALSE,
     pose  |-> [h \in Handles |-> [position |-> Zero3, rotation |-> Zero3]],
     scale |-> [m \in AllArmMeshes |-> One3],
     visible |-> [n \in Visibles |-> TRUE],
     skinMap |-> "null"]

\* One component assignment: <<handle, kind, axis, value>>.
PosSet(h, x, y, z) == << <<h, "position", 1, x>>, <<h, "position", 2, y>>, <<h, "position", 3, z>> >>
RotSet(h, x, y, z) == << <<h, "rotation", 1, x>>, <<h, "rotation", 2, y>>, <<h, "rotation", 3, z>> >>
PosAxis(h, i, val) == << <<h, "position", i, val>> >>
RotAxis(h, i, val) == << <<h, "rotation", i, val>> >>

\* The effect of a straight-line block of assignments of constants, in source order:
\* per component, whether the block assigns it and the last value it assigns.
Table(ops) ==
    [h \in Handles |-> [k \in Kinds |-> [i \in 1..3 |->
        LET hits == {j \in 1..Len(ops) : ops[j][1] = h /\ ops[j][2] = k /\ ops[j][3] = i}
        IN  IF hits = {} THEN [set |-> FALSE, val |-> 0]
            ELSE [set |-> TRUE,
                  val |-> ops[CHOOSE j \in hits : \A m \in hits : m <= j][4]]]]]

\* A rig after such a block: an assigned component has the block's value, the others keep theirs.
ApplyTable(r, t) ==
    [r EXCEPT !.pose =
        [h \in Handles |-> [k \in Kinds |-> [i \in 1..3 |->
            IF t[h][k][i].set THEN t[h][k][i].val ELSE r.pose[h][k][i]]]]]

\* A rig after a block of assignments, applied in source order.
ApplyOps(r, ops) == ApplyTable(r, Table(ops))

\* ------------------------------------------------------------- SkinObject
\* The six model listeners pushed by the constructor, run in order.
SkinObject_modelListeners(r) ==
    LET inner == IF r.slim THEN Units(3) ELSE Units(4)
        outer == IF r.slim THEN Tenths(35) ELSE Tenths(45)
        sc == [m \in AllArmMeshes |->
                 IF m \in LowerArmMeshes THEN r.scale[m]
                 ELSE IF m \in InnerArmMeshes THEN <<inner, Units(4), Units(4)>>
                 ELSE <<outer, Tenths(45), Tenths(45)>>]
    IN  [r EXCEPT !.scale = sc,
                  !.pose["rightUpperArmPivot"].position[1] =
                        IF r.slim THEN Tenths(-5) ELSE Units(-1),
                  !.pose["leftUpperArmPivot"].position[1] =
                        IF r.slim THEN Tenths(5) ELSE Units(1)]

\* A setter whose listeners run only when the new model type is "slim".
SkinObject_setModelType_slimOnly(r, value) ==
    IF value = "slim" THEN SkinObject_modelListeners([r EXCEPT !.slim = TRUE])
    ELSE [r EXCEPT !.slim = FALSE]

\* set modelType(value): this.slim = value === "slim"; every listener runs.
SkinObject_setModelType(r, value) ==
    SkinObject_modelListeners([r EXCEPT !.slim = (value = "slim")])

\* get modelType()
SkinObject_modelType(r) == IF r.slim THEN "slim" ELSE "default"

\* The position assignments of the SkinObject constructor, then modelType = "default".
SkinObject_new(r) ==
    SkinObject_setModelType(
        ApplyOps(r,
               PosAxis("body", 2, Units(-6))
            \o PosAxis("rightUpperArmPivot", 2, Units(-4))
            \o PosAxis("rightElbow", 2, Units(-4))
            \o PosAxis("rightLowerArmPivot", 2, Units(-4))
            \o PosAxis("rightUpperArm", 1, Units(-5))
            \o PosAxis("rightUpperArm", 2, Units(-2))
            \o PosAxis("leftUpperArmPivot", 2, Units(-4))
            \o PosAxis("leftElbow", 2, Units(-4))
            \o PosAxis("leftLowerArmPivot", 2, Units(-4))
            \o PosAxis("leftUpperArm", 1, Units(5))
            \o PosAxis("leftUpperArm", 2, Units(-2))
            \o PosAxis("rightUpperLegPivot", 2, Units(-6))
            \o PosAxis("rightKnee", 2, Units(-4))
            \o PosAxis("rightLowerLegPivot", 2, Units(-4))
            \o PosAxis("rightUpperLeg", 1, Tenths(-19))
            \o PosAxis("rightUpperLeg", 2, Units(-12))
            \o PosAxis("rightUpperLeg", 3, Tenths(-1))
            \o PosAxis("leftUpperLegPivot", 2, Units(-6))
            \o PosAxis("leftKnee", 2, Units(-4))
            \o PosAxis("leftLowerLegPivot", 2, Units(-4))
            \o PosAxis("leftUpperLeg", 1, Tenths(19))
            \o PosAxis("leftUpperLeg", 2, Units(-12))
            \o PosAxis("leftUpperLeg", 3, Tenths(-1))),
        "default")

\* The statements of SkinObject.resetJoints(), in order.
SkinResetOps(slim) ==
           RotSet("head", 0, 0, 0)
        \o RotSet("leftUpperArm", 0, 0, 0)
        \o RotSet("rightUpperArm", 0, 0, 0)
        \o RotSet("leftUpperLeg", 0, 0, 0)
        \o RotSet("rightUpperLeg", 0, 0, 0)
        \o RotSet("rightLowerArm", 0, 0, 0)
        \o RotSet("leftLowerArm", 0, 0, 0)
        \o RotSet("rightLowerLeg", 0, 0, 0)
        \o RotSet("leftLowerLeg", 0, 0, 0)
        \o RotSet("rightElbow", 0, 0, 0)
        \o RotSet("leftElbow", 0, 0, 0)
        \o RotSet("rightKnee", 0, 0, 0)
        \o RotSet("leftKnee", 0, 0, 0)
        \o PosSet("rightElbow", 0, Units(-4), 0)
        \o PosSet("leftElbow", 0, Units(-4), 0)
        \o PosSet("rightKnee", 0, Units(-4), 0)
        \o PosSet("leftKnee", 0, Units(-4), 0)
        \o PosSet("rightUpperArmPivot", IF slim THEN Tenths(-5) ELSE Units(-1), Units(-4), 0)
        \o PosSet("leftUpperArmPivot", IF slim THEN Tenths(5) ELSE Units(1), Units(-4), 0)
        \o PosSet("rightLowerArmPivot", 0, Units(-4), 0)
        \o PosSet("leftLowerArmPivot", 0, Units(-4), 0)
        \o PosSet("rightUpperLegPivot", 0, Units(-6), 0)
        \o PosSet("leftUpperLegPivot", 0, Units(-6), 0)
        \o PosSet("rightLowerLegPivot", 0, Units(-4), 0)
        \o PosSet("leftLowerLegPivot", 0, Units(-4), 0)
        \o PosSet("rightLowerArm", 0, 0, 0)
        \o PosSet("leftLowerArm", 0, 0, 0)
        \o PosSet("rightLowerLeg", 0, 0, 0)
        \o PosSet("leftLowerLeg", 0, 0, 0)
        \o RotSet("body", 0, 0, 0)
        \o PosAxis("head", 2, 0)
        \o PosSet("body", 0, Units(-6), 0)
        \o PosSet("rightUpperArm", Units(-5), Units(-2), 0)
        \o PosSet("leftUpperArm", Units(5), Units(-2), 0)
        \o PosSet("rightUpperLeg", Tenths(-19), Units(-12), Tenths(-1))
        \o PosSet("leftUpperLeg", Tenths(19), Units(-12), Tenths(-1))

SkinResetDefault == Table(SkinResetOps(FALSE))
SkinResetSlim == Table(SkinResetOps(TRUE))

\* A resetJoints() that restores the rotations and leaves every position as it is.
SkinResetRotations == Table(SelectSeq(SkinResetOps(FALSE), LAMBDA op : op[2] = "rotation"))
SkinObject_resetJoints_rotationsOnly(r) == ApplyTable(r, SkinResetRotations)

\* SkinObject.resetJoints()
SkinObject_resetJoints(r) ==
    ApplyTable(r, IF r.slim THEN SkinResetSlim ELSE SkinResetDefault)

\* ----------------------------------------------------------- ElytraObject
\* updateRightWing(): mirrors the left wing onto the right wing.
ElytraObject_updateRightWing(r) ==
    LET lw == r.pose["leftWing"]
        rw == r.pose["rightWing"]
    IN  [r EXCEPT !.pose["rightWing"] =
            [position |-> <<-lw.position[1], lw.position[2], rw.position[3]>>,
             rotation |-> <<lw.rotation[1], -lw.rotation[2], -lw.rotation[3]>>]]

\* The assignments of ElytraObject.resetJoints() before updateRightWing().
ElytraResetOps ==
       RotAxis("leftWing", 2, WingYAngle)
    \o RotAxis("leftWing", 3, WingAngle)

ElytraReset == Table(ElytraResetOps)

\* A resetJoints() that mirrors the left wing before it has put it back.
ElytraObject_resetJoints_mirrorFirst(r) == ApplyTable(ElytraObject_updateRightWing(r), ElytraReset)

\* ElytraObject.resetJoints()
ElytraObject_resetJoints(r) == ElytraObject_updateRightWing(ApplyTable(r, ElytraReset))

\* The wing assignments of the ElytraObject constructor, which ends in resetJoints().
ElytraObject_new(r) ==
    ElytraObject_resetJoints(
        ApplyOps(r,
               PosAxis("leftWing", 1, Units(5))
            \o RotAxis("leftWing", 1, WingAngle)))

\* ----------------------------------------------------------- PlayerObject
\* new PlayerObject(): skin, cape and elytra are built and placed; the elytra and the
\* ears are hidden.
PlayerObject_new ==
    [ApplyOps(ElytraObject_new(SkinObject_new(BlankRig)),
           PosAxis("skin", 2, Units(8))
        \o PosAxis("cape", 2, Units(8))
        \o PosAxis("cape", 3, Units(-2))
        \o RotAxis("cape", 1, CapeDefaultAngle)
        \o RotAxis("cape", 2, PiAngle)
        \o PosAxis("elytra", 2, Units(8))
        \o PosAxis("elytra", 3, Units(-2)))
     EXCEPT !.visible["elytra"] = FALSE, !.visible["ears"] = FALSE]

\* SkinObject.setInnerLayerVisible(value)
SkinObject_setInnerLayerVisible(r, value) ==
    [r EXCEPT !.visible =
        [n \in Visibles |->
            IF \E part \in SkinObject_getBodyParts : Layers[part].innerLayer = n
            THEN value ELSE r.visible[n]]]

\* SkinObject.setOuterLayerVisible(value)
SkinObject_setOuterLayerVisible(r, value) ==
    [r EXCEPT !.visible =
        [n \in Visibles |->
            IF \E part \in SkinObject_getBodyParts : Layers[part].outerLayer = n
            THEN value ELSE r.visible[n]]]

\* get backEquipment()
PlayerObject_backEquipment(r) ==
    IF r.visible["cape"] THEN "cape"
    ELSE IF r.visible["elytra"] THEN "elytra"
    ELSE "null"

\* A setter that shows the named attachment and leaves the other as it is.
PlayerObject_setBackEquipment_showOnly(r, value) ==
    [r EXCEPT !.visible["cape"] = (value = "cape") \/ r.visible["cape"],
              !.visible["elytra"] = (value = "elytra") \/ r.visible["elytra"]]

\* set backEquipment(value)
PlayerObject_setBackEquipment(r, value) ==
    [r EXCEPT !.visible["cape"] = (value = "cape"),
              !.visible["elytra"] = (value = "elytra")]

\* PlayerObject.resetJoints()
PlayerResetOps ==
       RotAxis("cape", 1, CapeDefaultAngle)
    \o PosAxis("cape", 2, Units(8))
    \o PosAxis("cape", 3, Units(-2))
    \o PosAxis("elytra", 2, Units(8))
    \o PosAxis("elytra", 3, Units(-2))
    \o RotAxis("elytra", 1, 0)

PlayerReset == Table(PlayerResetOps)

PlayerObject_resetJoints(r) ==
    ElytraObject_resetJoints(ApplyTable(SkinObject_resetJoints(r), PlayerReset))

\* A freshly constructed PlayerObject whose skin has the given model type.
FreshDefault == SkinObject_setModelType(PlayerObject_new, "default")
FreshSlim == SkinObject_setModelType(PlayerObject_new, "slim")
FreshPlayer(slim) == IF slim THEN FreshSlim ELSE FreshDefault

\* --------------------------------------------------------------- bounds
\* Writes to a rig's handles in one run of the rig specification.
MaxWrites == 1
\* PlayerObjects constructed by one viewer (the default player included).
MaxPlayers == 2
\* Largest value of an animation's progress.
MaxProgress == 1

\* ---------------------------------------------------------------- state
VARIABLES
    rig,           \* rig spec: a standalone PlayerObject (new PlayerObject())
    rigLast,       \* rig spec: the last operation on it
    rigPrev,       \* rig spec: the operation a resetJoints() call followed, the model
                   \* type a modelType assignment replaced, else "none"
    rigArg,        \* rig spec: the argument of the last operation on visibility, else NULL
    writes,        \* rig spec: writes made so far
    ctorAnimation, \* viewer: options.animation of the constructor, until setAnimation is
                   \* first called (NULL when left out, and after that call)
    created,       \* viewer: PlayerObjects constructed so far; they are 1..created
    rigs,          \* viewer: created player -> its rig
    players,       \* viewer: this.players
    animations,    \* viewer: this.animations, a Map: assigned player -> animation
    _animation,    \* viewer: this._animation
    progress,      \* animation -> its progress
    paused,        \* animation -> its paused flag
    clockRunning,  \* viewer: this.clock.running
    _renderPaused, \* viewer: this._renderPaused
    animationID,   \* viewer: this.animationID
    frames,        \* requested animation frames that neither fired nor were cancelled
    _disposed,     \* viewer: this._disposed
    contextLost,   \* viewer: this.renderer.getContext().isContextLost()
    contextEvent,  \* the canvas's WebGL context event not yet dispatched, else NULL
    _autoFit,      \* viewer: this._autoFit
    playerSpacing, \* viewer: this.playerSpacing
    last,          \* viewer: the last operation, its arguments and what it found
    textures,      \* viewer: player -> its canvases and its skin, cape and ears textures
    loads,         \* the loadSkin, loadCape and loadEars calls that returned a promise
    settled,       \* which of them have their image loaded and their callback run
    errors,        \* how many of the promises were rejected with an error
    keyframes,     \* editor: the keyframes array
    target,        \* editor: position and rotation of ikChains["ik.rightArm"].target
    clicks,        \* editor: clicks on "add keyframe" so far
    clock,         \* editor: what Date.now() returned last
    file,          \* editor: the data of the last downloaded file, if any
    loadedAnimation, \* editor: the keyframes of loadedAnimation, if any
    editLast       \* editor: the last operation and its arguments

rigVars == <<rig, rigLast, rigPrev, rigArg, writes>>
viewerVars ==
    <<ctorAnimation, created, rigs, players, animations, _animation, progress, paused,
      clockRunning, _renderPaused, animationID, frames, _disposed, contextLost,
      contextEvent, _autoFit, playerSpacing, last, textures, loads, settled, errors>>
contextVars == <<_disposed, contextLost, contextEvent>>
loadVars == <<loads, settled, errors>>
resourceVars == <<textures, loadVars>>
editorVars == <<keyframes, target, clicks, clock, file, loadedAnimation, editLast>>
notViewerVars == <<rigVars, editorVars>>
notRigVars == <<viewerVars, editorVars>>
vars == <<rigVars, viewerVars, editorVars>>

NULL == "null"

\* ------------------------------------------------- the rig specification
\* What callers write to a handle: position.set(1, 1, 1) and position.set(1, 2, 3)
\* (tests), rotation.x = 0.5 (an animation's animate()).
WriteVectors == {<<Units(1), Units(2), Units(3)>>}
LimbVectors == {One3}
AxisValues == {Tenths(5)}

\* The upper and lower arm and leg parts, the elbows and the knees.
LimbParts ==
    {"leftUpperArm", "rightUpperArm", "leftLowerArm", "rightLowerArm",
     "leftUpperLeg", "rightUpperLeg", "leftLowerLeg", "rightLowerLeg",
     "leftElbow", "rightElbow", "leftKnee", "rightKnee"}

\* handle.position.set(v) on every limb part.
RECURSIVE SetPositions(_, _, _)
SetPositions(r, hs, v) ==
    IF hs = {} THEN r
    ELSE LET h == CHOOSE x \in hs : TRUE
         IN  SetPositions(SetVec(r, h, "position", v), hs \ {h}, v)

RigInit ==
    /\ rig = PlayerObject_new
    /\ rigLast = "new"
    /\ rigPrev = "none"
    /\ rigArg = NULL
    /\ writes = 0

\* handle.position.set(...) or handle.rotation.set(...) by a caller
RigWriteVector(h, k, v) ==
    /\ writes < MaxWrites
    /\ rig' = SetVec(rig, h, k, v)
    /\ rigLast' = "write"
    /\ rigPrev' = "none"
    /\ rigArg' = NULL
    /\ writes' = writes + 1

\* handle.position.x = ... or handle.rotation.x = ... by a caller
RigWriteAxis(h, k, i, val) ==
    /\ writes < MaxWrites
    /\ rig' = SetAxis(rig, h, k, i, val)
    /\ rigLast' = "write"
    /\ rigPrev' = "none"
    /\ rigArg' = NULL
    /\ writes' = writes + 1

\* The positions of all limb parts overwritten at once.
RigDisturbLimbs(v) ==
    /\ writes < MaxWrites
    /\ rig' = SetPositions(rig, LimbParts, v)
    /\ rigLast' = "disturbLimbs"
    /\ rigPrev' = "none"
    /\ rigArg' = NULL
    /\ writes' = writes + 1

\* player.skin.modelType = value
RigSetModelType(value) ==
    /\ rig' = SkinObject_setModelType(rig, value)
    /\ rigLast' = "modelType"
    /\ rigPrev' = SkinObject_modelType(rig)
    /\ rigArg' = NULL
    /\ UNCHANGED writes

\* player.resetJoints()
RigResetJoints ==
    /\ rig' = PlayerObject_resetJoints(rig)
    /\ rigLast' = "resetJoints"
    /\ rigPrev' = rigLast
    /\ rigArg' = NULL
    /\ UNCHANGED writes

\* A boolean argument as rigArg keeps it.
BoolArg(value) == IF value THEN "true" ELSE "false"

\* node.visible = value by a caller
RigWriteVisible(n, value) ==
    /\ writes < MaxWrites
    /\ rig' = [rig EXCEPT !.visible[n] = value]
    /\ rigLast' = "writeVisible"
    /\ rigPrev' = "none"
    /\ rigArg' = BoolArg(value)
    /\ writes' = writes + 1

\* player.skin.setInnerLayerVisible(value)
RigSetInnerLayerVisible(value) ==
    /\ rig' = SkinObject_setInnerLayerVisible(rig, value)
    /\ rigLast' = "setInnerLayerVisible"
    /\ rigPrev' = "none"
    /\ rigArg' = BoolArg(value)
    /\ UNCHANGED writes

\* player.skin.setOuterLayerVisible(value)
RigSetOuterLayerVisible(value) ==
    /\ rig' = SkinObject_setOuterLayerVisible(rig, value)
    /\ rigLast' = "setOuterLayerVisible"
    /\ rigPrev' = "none"
    /\ rigArg' = BoolArg(value)
    /\ UNCHANGED writes

\* player.backEquipment = value
RigSetBackEquipment(value) ==
    /\ rig' = PlayerObject_setBackEquipment(rig, value)
    /\ rigLast' = "backEquipment"
    /\ rigPrev' = PlayerObject_backEquipment(rig)
    /\ rigArg' = value
    /\ UNCHANGED writes

RigVisible == \E n \in Visibles, value \in BOOLEAN : RigWriteVisible(n, value)

RigInnerLayer == \E value \in BOOLEAN : RigSetInnerLayerVisible(value)

RigOuterLayer == \E value \in BOOLEAN : RigSetOuterLayerVisible(value)

RigBackEquipment == \E value \in {NULL, "cape", "elytra"} : RigSetBackEquipment(value)

RigWriteVec == \E h \in Handles, k \in Kinds, v \in WriteVectors : RigWriteVector(h, k, v)

RigWriteAx ==
    \E h \in Handles, k \in Kinds, i \in 1..3, val \in AxisValues : RigWriteAxis(h, k, i, val)

RigDisturb == \E v \in LimbVectors : RigDisturbLimbs(v)

RigModel == \E value \in {"default", "slim"} : RigSetModelType(value)

\* ---------------------------------------------------------- animations
\* Two animation instances: an AnimA of tests/animation-reset.test.js and a
\* JumpAnimation of the examples.
Anims == {"animA", "jump"}

\* The animation createKeyframeAnimation returns, a new object at every call.
KeyframeAnim == "keyframe"

\* An animation's progress and the clock's delta times are counted in quarters of a
\* unit, so that the jump, of period 1, is seen at its top and on the ground.
\* Math.abs(Math.sin(this.progress * 2 * Math.PI)) * 5 at pr quarters.
JumpHeight(pr) == IF pr % 2 = 1 THEN Units(5) ELSE 0

\* AnimA.animate(player): player.skin.leftUpperArmPivot.rotation.x = 0.5
\* JumpAnimation.animate(player): player.position.y = |sin(progress * 2 * PI)| * 5
Animate(a, r, pr) ==
    IF a = "animA" THEN SetAxis(r, "leftUpperArmPivot", "rotation", 1, Tenths(5))
    ELSE SetAxis(r, "player", "position", 2, JumpHeight(pr))

\* An update that advances the progress whether or not the animation is paused.
UpdateProgress_ignoresPaused(pr, isPaused, dt) == pr + dt

\* PlayerAnimation.update(player, dt), on the progress: nothing while paused,
\* else progress advances by dt * speed (speed is left at its default 1.0).
UpdateProgress(pr, isPaused, dt) == IF isPaused THEN pr ELSE pr + dt

\* PlayerAnimation.update(player, dt), on the rig: nothing while paused, else
\* animate() at the advanced progress.
UpdateRig(a, isPaused, r, pr) == IF isPaused THEN r ELSE Animate(a, r, pr)

\* The delta times clock.getDelta() may return while the clock runs.
DeltaTimes == {0, 1}

\* ------------------------------------------------------------ SkinViewer
\* get playerObject(): this.players[0]; 0 stands for undefined (no player is 0).
playerObject == IF players = <<>> THEN 0 ELSE players[1]

\* getAnimation(player): this.animations.get(player) ?? null
getAnimation(player) == IF player \in DOMAIN animations THEN animations[player] ELSE NULL

\* get animation(): this.getAnimation(this.playerObject)
animation == getAnimation(playerObject)

\* this.players.indexOf(player) !== -1
InPlayers(player) == \E i \in 1..Len(players) : players[i] = player

\* layoutPlayers(): the players are spread along x around the origin,
\* playerSpacing apart.
LayoutX(i, n, spacing) == ((2 * (i - 1) - (n - 1)) * spacing) \div 2

layoutPlayers(rs) ==
    [p \in DOMAIN rs |->
        IF \E i \in 1..Len(players) : players[i] = p
        THEN LET i == CHOOSE j \in 1..Len(players) : players[j] = p
             IN  SetAxis(rs[p], "player", "position", 1, LayoutX(i, Len(players), playerSpacing))
        ELSE rs[p]]

\* The x position of every player of this.players, in order.
PlayerXs(rs) == [i \in 1..Len(players) |-> rs[players[i]].pose["player"].position[1]]

\* window.requestAnimationFrame(): a handle no pending frame has.
RequestFrame(pending) == CHOOSE i \in 1..(Cardinality(pending) + 1) : i \notin pending

\* What the last operation was: its name, with the arguments of setAnimation, the
\* update calls draw() made, the number of updateLayout() calls made and the dt of an
\* update call a caller made.  Operations no property asks about are
\* recorded as "other".
NoOp ==
    [op |-> "other", player |-> 0, animation |-> NULL, calls |-> <<>>, layoutCalls |-> 0,
     dt |-> 0]

\* The textures the viewer keeps for a player.
TextureKinds == {"skin", "cape", "ears"}

\* initPlayerData(player): the three canvases are made and the three textures are
\* null.  canvases is whether the canvas maps have the player; skin, cape and ears are
\* what the texture maps hold for it, "absent" when they do not have it; live counts
\* the textures made for the player that are not disposed.
initPlayerData ==
    [canvases |-> TRUE, skin |-> "null", cape |-> "null", ears |-> "null",
     live |-> [k \in TextureKinds |-> 0]]

\* recreateSkinTexture, recreateCapeTexture, recreateEarsTexture: the old texture, if
\* there is one, is disposed, and a new one is made and kept.
recreateTexture(t, kind) ==
    [t EXCEPT ![kind] = "live", !.live[kind] = IF t[kind] = "live" THEN @ ELSE @ + 1]

\* resetCape, resetEars: the texture, if there is one, is disposed and null is kept.
resetTexture(t, kind) ==
    IF t[kind] = "live" THEN [t EXCEPT ![kind] = "null", !.live[kind] = @ - 1] ELSE t

\* resetSkin, resetCape and resetEars for the textures of one player.
resetTextures(t) == resetTexture(resetTexture(recreateTexture(t, "skin"), "cape"), "ears")

\* removePlayer, lines 748-760: the textures are reset, the skin texture is disposed
\* and the player is deleted from the six maps.
removeTextures(t) ==
    [canvases |-> FALSE, skin |-> "absent", cape |-> "absent", ears |-> "absent",
     live |-> [resetTextures(t).live EXCEPT
                  !["skin"] = IF resetTextures(t).skin = "live" THEN @ - 1 ELSE @]]

\* loadSkin for source null or a TextureSource, the textures.
loadSkinTextures(t, source, ears) ==
    IF source # NULL /\ ears THEN recreateTexture(recreateTexture(t, "skin"), "ears")
    ELSE recreateTexture(t, "skin")

\* applySkinPlaceholder(player): the canvas is filled with #c6c6c6, the texture is
\* made from it again, and the skin is shown.
ApplySkinPlaceholder(r) == [r EXCEPT !.skinMap = "placeholder", !.visible["skin"] = TRUE]

\* resetSkin(player)
ResetSkin(r) == ApplySkinPlaceholder(r)

\* The player the constructor builds: skin and cape hidden.
DefaultPlayer ==
    [PlayerObject_new EXCEPT !.visible["skin"] = FALSE, !.visible["cape"] = FALSE]

\* The model types inferModelType() can find in a skin image.
ModelTypes == {"default", "slim"}

\* loadSkin(source, options, player) for source null or a TextureSource (a File, Blob
\* or URL source ends in this call once its image is loaded): options.model (NULL
\* when left out), options.makeVisible !== false and options.ears === true are given;
\* inferred is what inferModelType finds in the image.
LoadSkin(r, source, model, makeVisible, ears, inferred) ==
    IF source = NULL THEN ResetSkin(r)
    ELSE LET typed == SkinObject_setModelType(
                          [r EXCEPT !.skinMap = source],
                          IF model \in {NULL, "auto-detect"} THEN inferred ELSE model)
             shown == IF makeVisible THEN [typed EXCEPT !.visible["skin"] = TRUE]
                      ELSE typed
         IN  IF ears THEN [shown EXCEPT !.visible["ears"] = TRUE] ELSE shown

\* resetCape(player): player.backEquipment = null
ResetCape(r) == PlayerObject_setBackEquipment(r, NULL)

\* resetEars(player): player.ears.visible = false
ResetEars(r) == [r EXCEPT !.visible["ears"] = FALSE]

\* resetSkin, resetCape and resetEars of one player, as removePlayer() and dispose()
\* call them.
ResetTextures(r) == ResetEars(ResetCape(ResetSkin(r)))

\* new SkinViewer(options), with options.animation (NULL when left out),
\* options.renderPaused and options.skin ("undefined" when left out, else null or an
\* image that shows the default model); animationID 0 stands for null.
SkinViewer_new(optAnimation, optRenderPaused, optSkin) ==
    /\ ctorAnimation = optAnimation
    /\ created = 1
    /\ rigs = (1 :> IF optSkin = "undefined" THEN DefaultPlayer
                     ELSE LoadSkin(DefaultPlayer, optSkin, NULL, TRUE, FALSE, "default"))
    /\ players = <<1>>
    /\ animations = IF optAnimation # NULL THEN (1 :> optAnimation) ELSE << >>
    /\ _animation = NULL
    /\ progress = [a \in Anims \cup {KeyframeAnim} |-> 0]
    /\ paused = [a \in Anims \cup {KeyframeAnim} |-> FALSE]
    /\ clockRunning = FALSE
    /\ _renderPaused = optRenderPaused
    /\ animationID = IF optRenderPaused THEN 0 ELSE RequestFrame({})
    /\ frames = IF optRenderPaused THEN {} ELSE {RequestFrame({})}
    /\ _disposed = FALSE
    /\ contextLost = FALSE
    /\ contextEvent = NULL
    /\ playerSpacing = Units(20)
    /\ last = [NoOp EXCEPT !.op = "new"]
    /\ textures = (1 :> IF optSkin = "undefined" THEN initPlayerData
                         ELSE loadSkinTextures(initPlayerData, optSkin, FALSE))
    /\ loads = <<>>
    /\ settled = {}
    /\ errors = 0

\* setAnimation, lines 979-985: whether the pose is reset.
SetAnimationResets(player, anim) == _animation # anim \/ anim = KeyframeAnim

\* setAnimation, lines 980-982: player.resetJoints(); player.position.set(0, 0, 0);
\* player.rotation.set(0, 0, 0)
ResetPlayer(r) ==
    SetVec(SetVec(PlayerObject_resetJoints(r), "player", "position", Zero3),
           "player", "rotation", Zero3)

\* A setAnimation that keeps the one animation of the viewer under the primary player,
\* whichever player it is called for.
SetAnimationMap_primary(player, anim) ==
    IF anim # NULL THEN (playerObject :> anim) @@ animations
    ELSE [q \in DOMAIN animations \ {playerObject} |-> animations[q]]

\* setAnimation, lines 986-991: the assignment map after the call.
SetAnimationMap(player, anim) ==
    IF anim # NULL THEN (player :> anim) @@ animations
    ELSE [q \in DOMAIN animations \ {player} |-> animations[q]]

\* setAnimation: the calls of updateLayout() it makes (it makes none).
SetAnimationLayoutCalls == 0

\* setAnimation(player, animation)
SetAnimation(player, anim) ==
    /\ rigs' = IF SetAnimationResets(player, anim)
               THEN [rigs EXCEPT ![player] = ResetPlayer(rigs[player])]
               ELSE rigs
    /\ clockRunning' = IF SetAnimationResets(player, anim) THEN FALSE ELSE clockRunning
    /\ progress' = IF anim # NULL THEN [progress EXCEPT ![anim] = 0] ELSE progress
    /\ animations' = SetAnimationMap(player, anim)
    /\ _animation' = IF player = playerObject THEN anim ELSE _animation
    /\ ctorAnimation' = NULL
    /\ last' = [NoOp EXCEPT !.op = "setAnimation", !.player = player, !.animation = anim,
                            !.layoutCalls = SetAnimationLayoutCalls]
    /\ UNCHANGED <<contextVars, resourceVars>>
    /\ UNCHANGED <<created, players, paused, _renderPaused, animationID, frames,
                   _autoFit, playerSpacing>>

\* draw(), lines 792-796: the update calls of one frame, in order, as <<animation, player>>.
DrawCalls ==
    IF _animation # NULL
    THEN [i \in 1..Len(players) |-> <<_animation, players[i]>>]
    ELSE <<>>

\* draw(), line 794 for each call of cs in turn: the progress of every animation and
\* the rigs after the calls, as <<progress, rigs>>.
RECURSIVE UpdatesAfter(_, _, _, _)
UpdatesAfter(pr, rs, cs, dt) ==
    IF cs = <<>> THEN <<pr, rs>>
    ELSE LET a == cs[1][1]
             player == cs[1][2]
             advanced == UpdateProgress(pr[a], paused[a], dt)
         IN  UpdatesAfter([pr EXCEPT ![a] = advanced],
                          [rs EXCEPT ![player] = UpdateRig(a, paused[a], rs[player], advanced)],
                          Tail(cs), dt)

\* draw(): a requested frame fires.  clock.getDelta() is 0 when it starts the clock.
Draw(dt) ==
    /\ animationID # 0
    /\ animationID \in frames
    /\ clockRunning \/ dt = 0
    /\ \A a \in Anims : UpdatesAfter(progress, rigs, DrawCalls, dt)[1][a] <= MaxProgress
    /\ progress' = UpdatesAfter(progress, rigs, DrawCalls, dt)[1]
    /\ rigs' = UpdatesAfter(progress, rigs, DrawCalls, dt)[2]
    /\ clockRunning' = TRUE
    /\ animationID' = RequestFrame(frames \ {animationID})
    /\ frames' = (frames \ {animationID}) \cup {RequestFrame(frames \ {animationID})}
    /\ last' = [NoOp EXCEPT !.op = "draw", !.calls = DrawCalls]
    /\ UNCHANGED <<contextVars, resourceVars>>
    /\ UNCHANGED <<ctorAnimation, created, players, animations, _animation, paused,
                   _renderPaused, _autoFit, playerSpacing>>

\* addPlayer(options): options.model is "slim", or is left out (NULL).
AddPlayer(model) ==
    /\ created < MaxPlayers
    /\ created' = created + 1
    /\ rigs' = ((created + 1) :>
                  ApplySkinPlaceholder(
                      LET hidden == [PlayerObject_new EXCEPT !.visible["cape"] = FALSE]
                      IN  IF model # NULL THEN SkinObject_setModelType(hidden, model)
                          ELSE hidden)) @@ rigs
    /\ players' = Append(players, created + 1)
    /\ last' = NoOp
    /\ textures' = ((created + 1) :> recreateTexture(initPlayerData, "skin")) @@ textures
    /\ UNCHANGED <<contextVars, loadVars>>
    /\ UNCHANGED <<ctorAnimation, animations, _animation, progress, paused, clockRunning,
                   _renderPaused, animationID, frames, _autoFit, playerSpacing>>

\* removePlayer(player): nothing happens when the player is not in this.players.
RemovePlayer(player) ==
    /\ players' = SelectSeq(players, LAMBDA q : q # player)
    /\ rigs' = IF InPlayers(player)
               THEN [rigs EXCEPT ![player] = ResetTextures(rigs[player])]
               ELSE rigs
    /\ last' = NoOp
    /\ textures' = IF InPlayers(player)
                   THEN [textures EXCEPT ![player] = removeTextures(textures[player])]
                   ELSE textures
    /\ UNCHANGED <<contextVars, loadVars>>
    /\ UNCHANGED <<ctorAnimation, created, animations, _animation, progress, paused,
                   clockRunning, _renderPaused, animationID, frames, _autoFit, playerSpacing>>

\* animation.progress = v, written by the animation's owner
SetProgress(a, v) ==
    /\ progress' = [progress EXCEPT ![a] = v]
    /\ last' = NoOp
    /\ UNCHANGED <<contextVars, resourceVars>>
    /\ UNCHANGED <<ctorAnimation, created, rigs, players, animations, _animation, paused,
                   clockRunning, _renderPaused, animationID, frames, _autoFit, playerSpacing>>

\* updateLayout(): the players are laid out again.
UpdateLayout ==
    /\ rigs' = layoutPlayers(rigs)
    /\ last' = [NoOp EXCEPT !.layoutCalls = 1]
    /\ UNCHANGED <<contextVars, resourceVars>>
    /\ UNCHANGED <<ctorAnimation, created, players, animations, _animation, progress, paused,
                   clockRunning, _renderPaused, animationID, frames, _autoFit, playerSpacing>>

\* setPlayerSpacing(spacing)
SetPlayerSpacing(spacing) ==
    /\ playerSpacing' = spacing
    /\ last' = NoOp
    /\ UNCHANGED <<contextVars, resourceVars>>
    /\ UNCHANGED <<ctorAnimation, created, rigs, players, animations, _animation, progress,
                   paused, clockRunning, _renderPaused, animationID, frames, _autoFit>>

\* The spacings the example offers.
Spacings == {Units(20), Units(40)}

\* ------------------------------------------------------- specifications
\* A setter that records the flag and leaves the requested frame alone.
SetRenderPaused_flagOnly(value) ==
    /\ _renderPaused' = value
    /\ last' = [NoOp EXCEPT !.op = "setRenderPaused"]
    /\ UNCHANGED <<ctorAnimation, created, rigs, players, animations, _animation, progress,
                   paused, clockRunning, animationID, frames, contextVars, resourceVars,
                   _autoFit, playerSpacing>>

\* A setter that resumes a disposed viewer too.
SetRenderPaused_ignoresDisposed(value) ==
    /\ _renderPaused' = value
    /\ IF value /\ animationID # 0
       THEN /\ frames' = frames \ {animationID}
            /\ animationID' = 0
            /\ clockRunning' = FALSE
       ELSE IF ~value /\ ~contextLost /\ animationID = 0
       THEN /\ animationID' = RequestFrame(frames)
            /\ frames' = frames \cup {RequestFrame(frames)}
            /\ UNCHANGED clockRunning
       ELSE UNCHANGED <<animationID, frames, clockRunning>>
    /\ last' = [NoOp EXCEPT !.op = "setRenderPaused"]
    /\ UNCHANGED <<ctorAnimation, created, rigs, players, animations, _animation, progress,
                   paused, contextVars, resourceVars, _autoFit, playerSpacing>>

\* A setter that resumes while the context is lost.
SetRenderPaused_ignoresContextLost(value) ==
    /\ _renderPaused' = value
    /\ IF value /\ animationID # 0
       THEN /\ frames' = frames \ {animationID}
            /\ animationID' = 0
            /\ clockRunning' = FALSE
       ELSE IF ~value /\ ~_disposed /\ animationID = 0
       THEN /\ animationID' = RequestFrame(frames)
            /\ frames' = frames \cup {RequestFrame(frames)}
            /\ UNCHANGED clockRunning
       ELSE UNCHANGED <<animationID, frames, clockRunning>>
    /\ last' = [NoOp EXCEPT !.op = "setRenderPaused"]
    /\ UNCHANGED <<ctorAnimation, created, rigs, players, animations, _animation, progress,
                   paused, contextVars, resourceVars, _autoFit, playerSpacing>>

\* set renderPaused(value)
SetRenderPaused(value) ==
    /\ _renderPaused' = value
    /\ IF value /\ animationID # 0
       THEN /\ frames' = frames \ {animationID}
            /\ animationID' = 0
            /\ clockRunning' = FALSE
       ELSE IF ~value /\ ~_disposed /\ ~contextLost /\ animationID = 0
       THEN /\ animationID' = RequestFrame(frames)
            /\ frames' = frames \cup {RequestFrame(frames)}
            /\ UNCHANGED clockRunning
       ELSE UNCHANGED <<animationID, frames, clockRunning>>
    /\ last' = [NoOp EXCEPT !.op = "setRenderPaused"]
    /\ UNCHANGED <<ctorAnimation, created, rigs, players, animations, _animation, progress,
                   paused, contextVars, resourceVars, _autoFit, playerSpacing>>

\* The WebGL context is lost: a webglcontextlost event is queued on the canvas.
LoseContext ==
    /\ ~contextLost
    /\ contextEvent = NULL
    /\ contextLost' = TRUE
    /\ contextEvent' = "webglcontextlost"
    /\ last' = NoOp
    /\ UNCHANGED resourceVars
    /\ UNCHANGED <<ctorAnimation, created, rigs, players, animations, _animation, progress,
                   paused, clockRunning, _renderPaused, animationID, frames, _disposed,
                   _autoFit, playerSpacing>>

\* The event is dispatched: onContextLost runs while it is a listener (dispose()
\* removes it).
OnContextLost ==
    /\ contextEvent = "webglcontextlost"
    /\ contextEvent' = NULL
    /\ IF ~_disposed /\ animationID # 0
       THEN /\ frames' = frames \ {animationID}
            /\ animationID' = 0
       ELSE UNCHANGED <<animationID, frames>>
    /\ last' = NoOp
    /\ UNCHANGED resourceVars
    /\ UNCHANGED <<ctorAnimation, created, rigs, players, animations, _animation, progress,
                   paused, clockRunning, _renderPaused, _disposed, contextLost, _autoFit,
                   playerSpacing>>

\* The browser restores a lost context whose loss event was dispatched: a
\* webglcontextrestored event is queued.
RestoreContext ==
    /\ contextLost
    /\ contextEvent = NULL
    /\ contextLost' = FALSE
    /\ contextEvent' = "webglcontextrestored"
    /\ last' = NoOp
    /\ UNCHANGED resourceVars
    /\ UNCHANGED <<ctorAnimation, created, rigs, players, animations, _animation, progress,
                   paused, clockRunning, _renderPaused, animationID, frames, _disposed,
                   _autoFit, playerSpacing>>

\* An onContextRestored that requests a frame without looking at animationID.
OnContextRestored_unguarded ==
    /\ contextEvent = "webglcontextrestored"
    /\ contextEvent' = NULL
    /\ IF ~_disposed /\ ~_renderPaused
       THEN /\ animationID' = RequestFrame(frames)
            /\ frames' = frames \cup {RequestFrame(frames)}
       ELSE UNCHANGED <<animationID, frames>>
    /\ last' = NoOp
    /\ UNCHANGED resourceVars
    /\ UNCHANGED <<ctorAnimation, created, rigs, players, animations, _animation, progress,
                   paused, clockRunning, _renderPaused, _disposed, contextLost, _autoFit,
                   playerSpacing>>

\* The event is dispatched: onContextRestored runs while it is a listener.
OnContextRestored ==
    /\ contextEvent = "webglcontextrestored"
    /\ contextEvent' = NULL
    /\ IF ~_disposed /\ ~_renderPaused /\ animationID = 0
       THEN /\ animationID' = RequestFrame(frames)
            /\ frames' = frames \cup {RequestFrame(frames)}
       ELSE UNCHANGED <<animationID, frames>>
    /\ last' = NoOp
    /\ UNCHANGED resourceVars
    /\ UNCHANGED <<ctorAnimation, created, rigs, players, animations, _animation, progress,
                   paused, clockRunning, _renderPaused, _disposed, contextLost, _autoFit,
                   playerSpacing>>

\* dispose(): the listeners go, the requested frame is cancelled, and skin, cape and
\* ears of every player are reset.
Dispose ==
    /\ _disposed' = TRUE
    /\ IF animationID # 0
       THEN /\ frames' = frames \ {animationID}
            /\ animationID' = 0
       ELSE UNCHANGED <<animationID, frames>>
    /\ rigs' = [p \in DOMAIN rigs |->
                  IF InPlayers(p) THEN ResetTextures(rigs[p]) ELSE rigs[p]]
    /\ textures' = [p \in DOMAIN textures |->
                      IF InPlayers(p) THEN resetTextures(textures[p]) ELSE textures[p]]
    /\ last' = [NoOp EXCEPT !.op = "dispose"]
    /\ UNCHANGED loadVars
    /\ UNCHANGED <<ctorAnimation, created, players, animations, _animation, progress,
                   paused, clockRunning, _renderPaused, contextLost, contextEvent, _autoFit,
                   playerSpacing>>

\* loadSkin(source, options, player) by a caller
LoadSkinOf(player, source, model, makeVisible, ears, inferred) ==
    /\ rigs' = [rigs EXCEPT
                  ![player] = LoadSkin(rigs[player], source, model, makeVisible, ears,
                                       inferred)]
    /\ last' = [NoOp EXCEPT !.op = "loadSkin", !.player = player]
    /\ textures' = [textures EXCEPT
                      ![player] = loadSkinTextures(textures[player], source, ears)]
    /\ UNCHANGED <<contextVars, loadVars>>
    /\ UNCHANGED <<ctorAnimation, created, players, animations, _animation, progress,
                   paused, clockRunning, _renderPaused, animationID, frames, _autoFit,
                   playerSpacing>>

\* resetSkin(player) by a caller
ResetSkinOf(player) ==
    /\ rigs' = [rigs EXCEPT ![player] = ResetSkin(rigs[player])]
    /\ last' = [NoOp EXCEPT !.op = "resetSkin", !.player = player]
    /\ textures' = [textures EXCEPT ![player] = recreateTexture(textures[player], "skin")]
    /\ UNCHANGED <<contextVars, loadVars>>
    /\ UNCHANGED <<ctorAnimation, created, players, animations, _animation, progress,
                   paused, clockRunning, _renderPaused, animationID, frames, _autoFit,
                   playerSpacing>>

\* loadSkin, loadCape and loadEars calls that return a promise, in one run.
MaxLoads == 2

\* The images at the URLs, in the Files and in the Blobs given to the calls.
Images == {"image", "image2"}

\* loadSkin, loadCape or loadEars (kind) with a URL, File or Blob source and options
\* {} for a player: loadImage(source) starts, nothing else happens yet.
StartLoad(kind, player, source) ==
    /\ Len(loads) < MaxLoads
    /\ loads' = Append(loads, [kind |-> kind, player |-> player, source |-> source])
    /\ last' = NoOp
    /\ UNCHANGED <<contextVars, textures, settled, errors>>
    /\ UNCHANGED <<ctorAnimation, created, rigs, players, animations, _animation, progress,
                   paused, clockRunning, _renderPaused, animationID, frames, _autoFit,
                   playerSpacing>>

\* The rig after loadSkin, loadCape or loadEars with a TextureSource and options {}.
LoadedRig(r, kind, source, inferred) ==
    CASE kind = "skin" -> LoadSkin(r, source, NULL, TRUE, FALSE, inferred)
      [] kind = "cape" -> PlayerObject_setBackEquipment(r, "cape")
      [] kind = "ears" -> [r EXCEPT !.visible["ears"] = TRUE]

\* The image of call i is loaded and the promise's callback calls loadSkin, loadCape
\* or loadEars with the image.  When the player's canvas is no longer in the map, the
\* canvas handed to loadSkinToCanvas is undefined, the call throws a TypeError and
\* the promise is rejected.
SettleLoad(i, inferred) ==
    /\ i \in (1..Len(loads)) \ settled
    /\ settled' = settled \cup {i}
    /\ IF textures[loads[i].player].canvases
       THEN /\ textures' = [textures EXCEPT
                               ![loads[i].player] = recreateTexture(@, loads[i].kind)]
            /\ rigs' = [rigs EXCEPT
                           ![loads[i].player] = LoadedRig(@, loads[i].kind,
                                                          loads[i].source, inferred)]
            /\ UNCHANGED errors
       ELSE /\ errors' = errors + 1
            /\ UNCHANGED <<textures, rigs>>
    /\ last' = NoOp
    /\ UNCHANGED <<contextVars, loads>>
    /\ UNCHANGED <<ctorAnimation, created, players, animations, _animation, progress,
                   paused, clockRunning, _renderPaused, animationID, frames, _autoFit,
                   playerSpacing>>

DoStartLoad ==
    \E kind \in TextureKinds, p \in 1..created, source \in Images :
        /\ InPlayers(p)
        /\ ~_disposed
        /\ StartLoad(kind, p, source)

DoSettleLoad == \E i \in 1..Len(loads), inferred \in ModelTypes : SettleLoad(i, inferred)

DoLoadSkin ==
    \E p \in 1..created, source \in {NULL, "image"}, model \in {NULL, "slim"},
       makeVisible \in BOOLEAN, inferred \in ModelTypes :
        /\ InPlayers(p)
        /\ LoadSkinOf(p, source, model, makeVisible, FALSE, inferred)

DoResetSkin == \E p \in 1..created : InPlayers(p) /\ ResetSkinOf(p)

\* A very large delta time.
LargeDt == 1000

\* The delta times a caller passes to update().
UpdateDts == {0, 1, LargeDt}

\* animation.paused = value
SetPaused(a, value) ==
    /\ paused' = [paused EXCEPT ![a] = value]
    /\ last' = [NoOp EXCEPT !.op = "setPaused", !.animation = a]
    /\ UNCHANGED <<contextVars, resourceVars>>
    /\ UNCHANGED <<ctorAnimation, created, rigs, players, animations, _animation, progress,
                   clockRunning, _renderPaused, animationID, frames, _autoFit,
                   playerSpacing>>

\* animation.update(player, dt) by a caller
Update(a, player, dt) ==
    /\ UpdateProgress(progress[a], paused[a], dt) <= MaxProgress
    /\ progress' = [progress EXCEPT ![a] = UpdateProgress(progress[a], paused[a], dt)]
    /\ rigs' = [rigs EXCEPT
                  ![player] = UpdateRig(a, paused[a], rigs[player],
                                        UpdateProgress(progress[a], paused[a], dt))]
    /\ last' = [NoOp EXCEPT !.op = "update", !.animation = a, !.player = player, !.dt = dt]
    /\ UNCHANGED <<contextVars, resourceVars>>
    /\ UNCHANGED <<ctorAnimation, created, players, animations, _animation, paused,
                   clockRunning, _renderPaused, animationID, frames, _autoFit,
                   playerSpacing>>

DoSetPaused == \E a \in Anims, value \in BOOLEAN : SetPaused(a, value)

DoUpdate == \E a \in Anims, p \in 1..created, dt \in UpdateDts : Update(a, p, dt)

DoSetRenderPaused == \E value \in BOOLEAN : SetRenderPaused(value)

DoSetAnimation == \E p \in 1..created, a \in Anims \cup {NULL} : SetAnimation(p, a)
DoDraw == \E dt \in DeltaTimes : Draw(dt)
DoAddPlayer == \E model \in {NULL, "slim"} : AddPlayer(model)
DoRemovePlayer == \E p \in 1..created : RemovePlayer(p)
DoSetProgress == \E a \in Anims, v \in 1..MaxProgress : SetProgress(a, v)
DoSetPlayerSpacing == \E spacing \in Spacings : SetPlayerSpacing(spacing)

\* ------------------------------------------------- the keyframe editor
\* Clicks on "add keyframe" in one run.
MaxClicks == 2
\* Largest value of Date.now() and of a keyframe's time.
MaxTime == 2

RECURSIVE Factorial(_)
Factorial(n) == IF n <= 1 THEN 1 ELSE n * Factorial(n - 1)

RECURSIVE Power(_, _)
Power(b, e) == IF e = 0 THEN 1 ELSE b * Power(b, e - 1)

\* The rotations a user gives the target are whole multiples of this many 1e-7
\* radians: every time difference divides it once per click, so that the quotients
\* taken from rotations are exact however the keyframes were captured.
AngleUnit == Power(Factorial(MaxTime), MaxClicks)

\* The IK chains that are set up, and the bones of each.
IkChains == {"ik.rightArm"}
ChainBones == <<"skin.rightUpperArm", "skin.rightElbow", "skin.rightLowerArm">>

\* The bone paths a user selects besides the chains.
BonePaths == {"skin.head"}

\* getBone(path) for a path below the selected player: the handle it names.
BoneHandle(path) ==
    CASE path = "skin.head" -> "head"
      [] path = "skin.rightUpperArm" -> "rightUpperArm"
      [] path = "skin.rightElbow" -> "rightElbow"
      [] path = "skin.rightLowerArm" -> "rightLowerArm"
      [] OTHER -> "player"

\* The selected player is the viewer's primary player.
selectedPlayer == rigs[playerObject]

\* getWorldPosition() of a handle whose ancestors are not rotated: its position and
\* those of its ancestors, added up.
RECURSIVE SumPositions(_, _)
SumPositions(r, hs) ==
    IF hs = {} THEN Zero3
    ELSE LET h == CHOOSE x \in hs : TRUE
             rest == SumPositions(r, hs \ {h})
         IN  [c \in 1..3 |-> r.pose[h].position[c] + rest[c]]

WorldPosition(r, h) == SumPositions(r, ({h} \cup Ancestors(h)) \cap Handles)

\* Where a user puts the target with the transform controls.
TargetRotations ==
    {<<AngleUnit, 2 * AngleUnit, -AngleUnit>>, <<3 * AngleUnit, 0, AngleUnit>>}

\* The times a frame asks the target's keyframes for.
QueryTimes == (-1)..(MaxTime + 1)

EditNoOp == [op |-> "other", key |-> NULL, time |-> 0]

\* The editor as the page loads it and sets up the chains: no keyframes, the target
\* at the world position of the right lower arm.
EditorInit ==
    /\ keyframes = <<>>
    /\ target = [position |-> WorldPosition(PlayerObject_new, "rightLowerArm"),
                 rotation |-> Zero3]
    /\ clicks = 0
    /\ clock = 0
    /\ file = <<>>
    /\ loadedAnimation = <<>>
    /\ editLast = EditNoOp

\* captureIKTargets(time): one keyframe per chain, of its target. The chains do not
\* read each other's keyframes; the right arm's stands for the four.
captureIKTargets(time) ==
    << [time |-> time, bone |-> "ik.rightArm",
        position |-> target.position, rotation |-> target.rotation] >>

\* One keyframe of a bone of the selected player.
BoneKeyframe(time, path) ==
    [time |-> time, bone |-> path,
     position |-> selectedPlayer.pose[BoneHandle(path)].position,
     rotation |-> selectedPlayer.pose[BoneHandle(path)].rotation]

\* Date.now() returns time: the clock does not go back.
Now(time) ==
    /\ time \in clock..MaxTime
    /\ clock' = time

\* addKeyframe(bonePath) for a bone that is no chain, at Date.now() = time.
AddKeyframe(bonePath, time) ==
    /\ clicks < MaxClicks
    /\ Now(time)
    /\ keyframes' = keyframes \o <<BoneKeyframe(time, bonePath)>> \o captureIKTargets(time)
    /\ clicks' = clicks + 1
    /\ editLast' = [EditNoOp EXCEPT !.op = "addKeyframe", !.key = bonePath, !.time = time]
    /\ UNCHANGED <<target, file, loadedAnimation>>

\* addIKKeyframe(chainName) at Date.now() = time: the chain's target, its bones,
\* then every chain's target.
AddIKKeyframe(chainName, time) ==
    /\ clicks < MaxClicks
    /\ Now(time)
    /\ keyframes' =
            keyframes
         \o << [time |-> time, bone |-> chainName,
                position |-> target.position, rotation |-> target.rotation] >>
         \o [i \in 1..Len(ChainBones) |-> BoneKeyframe(time, ChainBones[i])]
         \o captureIKTargets(time)
    /\ clicks' = clicks + 1
    /\ editLast' = [EditNoOp EXCEPT !.op = "addIKKeyframe", !.key = chainName,
                                    !.time = time]
    /\ UNCHANGED <<target, file, loadedAnimation>>

\* The user turns the target with the transform controls.
MoveTarget(rotation) ==
    /\ target' = [target EXCEPT !.rotation = rotation]
    /\ editLast' = [EditNoOp EXCEPT !.op = "moveTarget"]
    /\ UNCHANGED <<keyframes, clicks, clock, file, loadedAnimation>>

\* The keyframes of one bone, in the order of the array.
FramesOf(chainKey) == SelectSeq(keyframes, LAMBDA kf : kf.bone = chainKey)

\* a + (b - a) * alpha for alpha = num / den, per component; quotients of positions
\* are cut to 1e-7.
Lerp(a, b, num, den) == [c \in 1..3 |-> a[c] + ((b[c] - a[c]) * num) \div den]

\* applyTargetKeyframe, the loop: the first pair of neighbours whose times enclose
\* time gives the target; alpha = (time - f0.time) / (f1.time - f0.time || 1).
Interpolate(tg, kfs, time) ==
    LET hits == {i \in 1..(Len(kfs) - 1) :
                    time >= kfs[i].time /\ time <= kfs[i + 1].time}
    IN  IF hits = {} THEN tg
        ELSE LET i == CHOOSE x \in hits : \A y \in hits : x <= y
                 f0 == kfs[i]
                 f1 == kfs[i + 1]
                 den == IF f1.time - f0.time = 0 THEN 1 ELSE f1.time - f0.time
             IN  [position |-> Lerp(f0.position, f1.position, time - f0.time, den),
                  rotation |-> Lerp(f0.rotation, f1.rotation, time - f0.time, den)]

\* An applyTargetKeyframe that carries the last interval on past the last keyframe.
applyTargetKeyframe_extrapolates(tg, chainKey, time) ==
    LET kfs == FramesOf(chainKey)
        n == Len(kfs)
    IN  IF chainKey \notin IkChains \/ kfs = <<>> THEN tg
        ELSE IF time <= kfs[1].time \/ n = 1
        THEN [position |-> kfs[1].position, rotation |-> kfs[1].rotation]
        ELSE IF time >= kfs[n].time
        THEN LET den == IF kfs[n].time - kfs[n - 1].time = 0 THEN 1
                        ELSE kfs[n].time - kfs[n - 1].time
             IN  [position |-> Lerp(kfs[n - 1].position, kfs[n].position,
                                    time - kfs[n - 1].time, den),
                  rotation |-> Lerp(kfs[n - 1].rotation, kfs[n].rotation,
                                    time - kfs[n - 1].time, den)]
        ELSE Interpolate(tg, kfs, time)

\* applyTargetKeyframe(chainKey, time): the target afterwards.
applyTargetKeyframe(tg, chainKey, time) ==
    LET kfs == FramesOf(chainKey)
    IN  IF chainKey \notin IkChains \/ kfs = <<>> THEN tg
        ELSE IF time <= kfs[1].time
        THEN [position |-> kfs[1].position, rotation |-> kfs[1].rotation]
        ELSE IF time >= kfs[Len(kfs)].time
        THEN [position |-> kfs[Len(kfs)].position,
              rotation |-> kfs[Len(kfs)].rotation]
        ELSE Interpolate(tg, kfs, time)

\* One frame of the IK loop asks for the target at a time.
ApplyTargetKeyframe(chainKey, time) ==
    /\ target' = applyTargetKeyframe(target, chainKey, time)
    /\ editLast' = [EditNoOp EXCEPT !.op = "applyTargetKeyframe", !.key = chainKey,
                                    !.time = time]
    /\ UNCHANGED <<keyframes, clicks, clock, file, loadedAnimation>>

\* Times of keyframe data are seconds, counted in 1e-6 s; those of the keyframes
\* array are milliseconds.
Seconds(ms) == ms * 1000
Millis(s) == s \div 1000

\* Where x goes in a list that is in the order of its times: behind every element
\* that is not later.
InsertByTime(s, x) ==
    LET k == Cardinality({i \in 1..Len(s) : s[i].time <= x.time})
    IN  SubSeq(s, 1, k) \o <<x>> \o SubSeq(s, k + 1, Len(s))

\* sort((a, b) => a.time - b.time): ascending, elements of one time keep their order.
RECURSIVE SortByTime(_)
SortByTime(s) ==
    IF s = <<>> THEN <<>>
    ELSE InsertByTime(SortByTime(SubSeq(s, 1, Len(s) - 1)), s[Len(s)])

\* The numbers of a set, ascending.
RECURSIVE Ascending(_)
Ascending(S) ==
    IF S = {} THEN <<>>
    ELSE LET m == CHOOSE x \in S : \A y \in S : x <= y
         IN  <<m>> \o Ascending(S \ {m})

\* buildKeyframeAnimation, the data: times from the first keyframe on, one frame per
\* time, the last keyframe of a bone at that time giving its rotation.
BuildData(kfs) ==
    LET start == kfs[1].time
        times == Ascending({kfs[i].time - start : i \in 1..Len(kfs)})
        at(t) == {i \in 1..Len(kfs) : kfs[i].time - start = t}
        lastOf(t, b) == CHOOSE i \in at(t) :
                            /\ kfs[i].bone = b
                            /\ \A j \in at(t) : kfs[j].bone = b => j <= i
    IN  [keyframes |->
            [n \in 1..Len(times) |->
                [time |-> Seconds(times[n]),
                 bones |-> [b \in {kfs[i].bone : i \in at(times[n])} |->
                               kfs[lastOf(times[n], b)].rotation]]]]

\* A KeyframeAnimation that keeps the keyframes in the order of the data.
KeyframeAnimation_new_unsorted(data) == [keyframes |-> data.keyframes]

\* new KeyframeAnimation(data), fromData: the keyframes, sorted by time.
KeyframeAnimation_new(data) == [keyframes |-> SortByTime(data.keyframes)]

createKeyframeAnimation(data) == KeyframeAnimation_new(data)

\* toJSON(): { keyframes: [{ time, bones }] }, time in seconds, ascending.
toJSON(anim) == [keyframes |-> anim.keyframes]

\* downloadJson: the data of the file written, when there are keyframes.
DownloadJson ==
    /\ file' = IF keyframes = <<>> THEN file
               ELSE <<toJSON(KeyframeAnimation_new(BuildData(keyframes)))>>
    /\ editLast' = [EditNoOp EXCEPT !.op = "downloadJson"]
    /\ UNCHANGED <<keyframes, target, clicks, clock, loadedAnimation>>

\* Object.entries(frame.bones) goes through the paths in this order.
PathOrder ==
    <<"skin.head", "skin.rightUpperArm", "skin.rightElbow", "skin.rightLowerArm",
      "ik.rightArm">>

\* uploadJson, the inner loop: the keyframes of one frame of the data.
FrameKeyframes(frame) ==
    LET ps == SelectSeq(PathOrder, LAMBDA p : p \in DOMAIN frame.bones)
    IN  [i \in 1..Len(ps) |->
            [time |-> Millis(frame.time), bone |-> ps[i], position |-> Zero3,
             rotation |-> frame.bones[ps[i]]]]

\* uploadJson, the outer loop.
RECURSIVE DataKeyframes(_)
DataKeyframes(fs) ==
    IF fs = <<>> THEN <<>>
    ELSE FrameKeyframes(fs[1]) \o DataKeyframes(SubSeq(fs, 2, Len(fs)))

\* Data written by hand whose one frame is at a time the clock has yet to reach.
LaterData ==
    { [keyframes |->
         << [time |-> Seconds(MaxTime), bones |-> ("skin.head" :> <<AngleUnit, 0, 0>>)] >>] }

\* Data written by hand: frames that are not in the order of their times.
HandWritten ==
    { [keyframes |->
         << [time |-> Seconds(MaxTime),
             bones |-> ("skin.head" :> <<AngleUnit, 0, 0>>
                        @@ "ik.rightArm" :> <<0, AngleUnit, 0>>)],
            [time |-> Seconds(0), bones |-> ("skin.head" :> Zero3)],
            [time |-> Seconds(1), bones |-> ("ik.rightArm" :> <<0, 0, -AngleUnit>>)] >>] }

\* uploadJson for a file that parses to data of the right shape: the animation is
\* created and set on the selected player, and the keyframes array is rebuilt.
UploadJson(data) ==
    /\ loadedAnimation' = <<createKeyframeAnimation(data)>>
    /\ SetAnimation(playerObject, KeyframeAnim)
    /\ keyframes' = SortByTime(DataKeyframes(data.keyframes))
    /\ editLast' = [EditNoOp EXCEPT !.op = "uploadJson"]
    /\ UNCHANGED <<target, clicks, clock, file>>

DoUploadJson ==
    \E data \in HandWritten \cup {file[i] : i \in 1..Len(file)} : UploadJson(data)

DoUploadLater == \E data \in LaterData : UploadJson(data)

DoAddKeyframe == \E bonePath \in BonePaths, time \in 0..MaxTime : AddKeyframe(bonePath, time)

DoAddIKKeyframe ==
    \E chainName \in IkChains, time \in 0..MaxTime : AddIKKeyframe(chainName, time)

DoMoveTarget == \E rotation \in TargetRotations : MoveTarget(rotation)

DoApplyTargetKeyframe ==
    \E chainKey \in IkChains, time \in QueryTimes : ApplyTargetKeyframe(chainKey, time)

\* Animation dispatch: a viewer that renders (renderPaused left out), constructed
\* without an animation; the standalone rig is left as constructed.
Init ==
    /\ SkinViewer_new(NULL, FALSE, "undefined")
    /\ _autoFit = FALSE
    /\ RigInit
    /\ EditorInit

Next ==
    \/ DoSetAnimation /\ UNCHANGED notViewerVars
    \/ DoDraw /\ UNCHANGED notViewerVars
    \/ DoAddPlayer /\ UNCHANGED notViewerVars
    \/ DoRemovePlayer /\ UNCHANGED notViewerVars
    \/ DoSetProgress /\ UNCHANGED notViewerVars

Spec == Init /\ [][Next]_vars

\* Animation dispatch of a viewer constructed with options.animation.
InitCtor ==
    /\ \E a \in Anims : SkinViewer_new(a, FALSE, "undefined")
    /\ _autoFit = FALSE
    /\ RigInit
    /\ EditorInit

NextCtor ==
    \/ DoSetAnimation /\ UNCHANGED notViewerVars
    \/ DoDraw /\ UNCHANGED notViewerVars
    \/ DoAddPlayer /\ UNCHANGED notViewerVars
    \/ DoRemovePlayer /\ UNCHANGED notViewerVars
    \/ DoSetProgress /\ UNCHANGED notViewerVars

SpecCtor == InitCtor /\ [][NextCtor]_vars

\* Animation assignment alone: players are added and removed and animations are
\* assigned, with no frame drawn (draw() changes neither this.animations nor
\* this._animation).
InitAssign ==
    /\ \E a \in Anims \cup {NULL} : SkinViewer_new(a, FALSE, "undefined")
    /\ _autoFit = FALSE
    /\ RigInit
    /\ EditorInit

NextAssign ==
    \/ DoSetAnimation /\ UNCHANGED notViewerVars
    \/ DoAddPlayer /\ UNCHANGED notViewerVars
    \/ DoRemovePlayer /\ UNCHANGED notViewerVars

SpecAssign == InitAssign /\ [][NextAssign]_vars

\* Player layout: players are added, removed, laid out and given animations.
InitLayout ==
    /\ SkinViewer_new(NULL, FALSE, "undefined")
    /\ _autoFit \in BOOLEAN
    /\ RigInit
    /\ EditorInit

NextLayout ==
    \/ DoSetAnimation /\ UNCHANGED notViewerVars
    \/ DoAddPlayer /\ UNCHANGED notViewerVars
    \/ DoRemovePlayer /\ UNCHANGED notViewerVars
    \/ DoSetPlayerSpacing /\ UNCHANGED notViewerVars
    \/ UpdateLayout /\ UNCHANGED notViewerVars

SpecLayout == InitLayout /\ [][NextLayout]_vars

\* The standalone rig, with a viewer constructed without options and left alone.
InitRig ==
    /\ RigInit
    /\ EditorInit
    /\ SkinViewer_new(NULL, FALSE, "undefined")
    /\ _autoFit = FALSE

NextRig ==
    \/ RigWriteVec /\ UNCHANGED notRigVars
    \/ RigWriteAx /\ UNCHANGED notRigVars
    \/ RigDisturb /\ UNCHANGED notRigVars
    \/ RigModel /\ UNCHANGED notRigVars
    \/ RigResetJoints /\ UNCHANGED notRigVars

SpecRig == InitRig /\ [][NextRig]_vars

\* The render loop: a viewer constructed with or without options.animation and
\* options.renderPaused; animations are assigned, frames fire, rendering is paused and
\* resumed, the WebGL context is lost and restored, and the viewer is disposed.
InitFrames ==
    /\ \E a \in Anims \cup {NULL}, optRenderPaused \in BOOLEAN :
          SkinViewer_new(a, optRenderPaused, "undefined")
    /\ _autoFit = FALSE
    /\ RigInit
    /\ EditorInit

NextFrames ==
    \/ DoSetAnimation /\ UNCHANGED notViewerVars
    \/ DoDraw /\ UNCHANGED notViewerVars
    \/ DoSetRenderPaused /\ UNCHANGED notViewerVars
    \/ LoseContext /\ UNCHANGED notViewerVars
    \/ OnContextLost /\ UNCHANGED notViewerVars
    \/ RestoreContext /\ UNCHANGED notViewerVars
    \/ OnContextRestored /\ UNCHANGED notViewerVars
    \/ Dispose /\ UNCHANGED notViewerVars

SpecFrames == InitFrames /\ [][NextFrames]_vars

\* Skins: a viewer constructed with or without options.skin; players are added and
\* removed, skins are loaded and reset.
InitSkin ==
    /\ \E optSkin \in {"undefined", NULL, "image"} : SkinViewer_new(NULL, FALSE, optSkin)
    /\ _autoFit = FALSE
    /\ RigInit
    /\ EditorInit

NextSkin ==
    \/ DoAddPlayer /\ UNCHANGED notViewerVars
    \/ DoRemovePlayer /\ UNCHANGED notViewerVars
    \/ DoLoadSkin /\ UNCHANGED notViewerVars
    \/ DoResetSkin /\ UNCHANGED notViewerVars

SpecSkin == InitSkin /\ [][NextSkin]_vars

\* Loads that finish later: players are added and removed, the viewer is disposed,
\* and skins, capes and ears are loaded from URLs, Files and Blobs.
NextLoads ==
    \/ DoAddPlayer /\ UNCHANGED notViewerVars
    \/ DoRemovePlayer /\ UNCHANGED notViewerVars
    \/ Dispose /\ UNCHANGED notViewerVars
    \/ DoStartLoad /\ UNCHANGED notViewerVars
    \/ DoSettleLoad /\ UNCHANGED notViewerVars

SpecLoads == Init /\ [][NextLoads]_vars

\* Animations updated by their owner: players are added, animations are paused and
\* resumed, and update() is called on any player with any delta time.
InitAnim ==
    /\ SkinViewer_new(NULL, FALSE, "undefined")
    /\ _autoFit = FALSE
    /\ RigInit
    /\ EditorInit

NextAnim ==
    \/ DoAddPlayer /\ UNCHANGED notViewerVars
    \/ DoSetPaused /\ UNCHANGED notViewerVars
    \/ DoUpdate /\ UNCHANGED notViewerVars

SpecAnim == InitAnim /\ [][NextAnim]_vars

\* The keyframe editor: keyframes are added, the target is moved, and frames of the
\* IK loop put the target where its keyframes say.
InitEditor ==
    /\ SkinViewer_new(NULL, FALSE, "undefined")
    /\ _autoFit = FALSE
    /\ RigInit
    /\ EditorInit

NextEditor ==
    \/ DoAddKeyframe /\ UNCHANGED <<rigVars, viewerVars>>
    \/ DoAddIKKeyframe /\ UNCHANGED <<rigVars, viewerVars>>
    \/ DoMoveTarget /\ UNCHANGED <<rigVars, viewerVars>>
    \/ DoApplyTargetKeyframe /\ UNCHANGED <<rigVars, viewerVars>>

SpecEditor == InitEditor /\ [][NextEditor]_vars

\* Keyframes of the chain are added, written to a file and read back from files.
NextJson ==
    \/ DoAddIKKeyframe /\ UNCHANGED <<rigVars, viewerVars>>
    \/ DoMoveTarget /\ UNCHANGED <<rigVars, viewerVars>>
    \/ DownloadJson /\ UNCHANGED <<rigVars, viewerVars>>
    \/ DoUploadJson /\ UNCHANGED rigVars

SpecJson == InitEditor /\ [][NextJson]_vars

\* Keyframes are recorded in the editor: added by clicks, and read from files.
NextRecord ==
    \/ DoAddKeyframe /\ UNCHANGED <<rigVars, viewerVars>>
    \/ DoAddIKKeyframe /\ UNCHANGED <<rigVars, viewerVars>>
    \/ DoUploadJson /\ UNCHANGED rigVars
    \/ DoUploadLater /\ UNCHANGED rigVars

SpecRecord == InitEditor /\ [][NextRecord]_vars

\* The visible flags of the standalone rig: layers are shown and hidden, the back
\* equipment is chosen, and callers set visible flags themselves.
NextVisible ==
    \/ RigVisible /\ UNCHANGED notRigVars
    \/ RigInnerLayer /\ UNCHANGED notRigVars
    \/ RigOuterLayer /\ UNCHANGED notRigVars
    \/ RigBackEquipment /\ UNCHANGED notRigVars

SpecVisible == InitRig /\ [][NextVisible]_vars

\* ------------------------------------------------------------ properties
\* The handles an animation poses: head, body, the upper and lower arm and leg parts,
\* the pivots, the elbows and knees, the cape, the elytra and its wings.
AnimatableHandles ==
    SkinParts \cup Pivots \cup Joints \cup {"cape", "elytra", "leftWing", "rightWing"}

\* The limb pivots (upper and lower arm and leg pivots), the elbows and the knees.
LimbJoints == Pivots \cup Joints

\* The rig r shows a limb rotation that animation a's animate() writes.
DisturbedBy(a, r) ==
    \E h \in LimbJoints :
        /\ Animate(a, FreshDefault, 0).pose[h].rotation # Zero3
        /\ r.pose[h].rotation = Animate(a, FreshDefault, 0).pose[h].rotation

\* How many of the update calls are animation a's update on player p.
UpdateCount(calls, a, p) == Cardinality({i \in 1..Len(calls) : calls[i] = <<a, p>>})

\* The players of this.players are where layoutPlayers() puts them.
LaidOut == PlayerXs(rigs) = PlayerXs(layoutPlayers(rigs))

\* The rest offsets of the limb parts, elbows and knees.
RestOffset(h) ==
    CASE h = "leftUpperArm" -> <<Units(5), Units(-2), 0>>
      [] h = "rightUpperArm" -> <<Units(-5), Units(-2), 0>>
      [] h = "leftUpperLeg" -> <<Tenths(19), Units(-12), Tenths(-1)>>
      [] h = "rightUpperLeg" -> <<Tenths(-19), Units(-12), Tenths(-1)>>
      [] h \in Joints -> <<0, Units(-4), 0>>
      [] OTHER -> Zero3

\* The width of arm mesh m of rig r: the width of its box times its scale.x.
MeshWidth(r, m) == BoxWidth(m) * (r.scale[m][1] \div 10)

\* The width a mesh of an arm segment has in a model type: 3 (inner) and 3.5 (outer)
\* when slim, 4 and 4.5 otherwise.
ArmWidth(slim, m) ==
    IF m \in InnerArmMeshes \cup InnerLowerArmMeshes
    THEN (IF slim THEN Units(3) ELSE Units(4))
    ELSE (IF slim THEN Tenths(35) ELSE Tenths(45))

\* The groups of the head, the body and the legs.
OtherSegments ==
    {"head", "body", "rightUpperLeg", "leftUpperLeg", "rightLowerLeg", "leftLowerLeg",
     "rightUpperLegPivot", "leftUpperLegPivot", "rightLowerLegPivot", "leftLowerLegPivot",
     "rightKnee", "leftKnee"}

\* The upper arm pivots, whose position.x is the lateral offset of an arm.
ArmPivots == {"rightUpperArmPivot", "leftUpperArmPivot"}

\* The four limbs: the BodyPart attached to the skin root, the shoulder or hip pivot,
\* the elbow or knee, and the lower pivot.
Limbs ==
    {[root |-> "rightUpperArm", upperPivot |-> "rightUpperArmPivot",
      joint |-> "rightElbow", lowerPivot |-> "rightLowerArmPivot"],
     [root |-> "leftUpperArm", upperPivot |-> "leftUpperArmPivot",
      joint |-> "leftElbow", lowerPivot |-> "leftLowerArmPivot"],
     [root |-> "rightUpperLeg", upperPivot |-> "rightUpperLegPivot",
      joint |-> "rightKnee", lowerPivot |-> "rightLowerLegPivot"],
     [root |-> "leftUpperLeg", upperPivot |-> "leftUpperLegPivot",
      joint |-> "leftKnee", lowerPivot |-> "leftLowerLegPivot"]}

\* The nodes of the hierarchy below the player root.
SceneNodes == {n \in Nodes : "player" \in Ancestors(n)}

\* In every limb the elbow or knee is below the shoulder or hip pivot and the lower
\* pivot below the elbow or knee, and every node below the player root has one parent.
LimbsAreChains ==
    /\ \A l \in Limbs :
         /\ l.upperPivot \in Ancestors(l.joint)
         /\ l.joint \in Ancestors(l.lowerPivot)
    /\ \A n \in SceneNodes : Cardinality(Parents(n)) = 1

\* What places node n in the world: the position and rotation of n and of each of its
\* ancestors.
WorldTransform(r, n) == [a \in ({n} \cup Ancestors(n)) \cap Handles |-> r.pose[a]]

\* C1: when setAnimation(player, B) replaces a different animation A of the player
\* whose limb rotation the player's rig shows, then after the call B.progress is 0 and
\* the rotation of every limb pivot, elbow and knee of the player is (0, 0, 0).
C1_ReplaceResetsLimbRotations ==
    [][(/\ last'.op = "setAnimation"
        /\ last'.animation # NULL
        /\ getAnimation(last'.player) \notin {NULL, last'.animation}
        /\ DisturbedBy(getAnimation(last'.player), rigs[last'.player]))
       => (/\ progress'[last'.animation] = 0
           /\ \A h \in LimbJoints : rigs'[last'.player].pose[h].rotation = Zero3)]_vars

\* C2: a drawn frame calls update exactly once for every player of the viewer that has
\* an animation assigned, with that player's own animation, and calls no other update
\* on a player of the viewer (none at all for a player without an animation).
C2_FrameUpdatesAssignedPlayers ==
    last.op = "draw" =>
        \A i \in 1..Len(players), a \in Anims :
            UpdateCount(last.calls, a, players[i])
                = IF getAnimation(players[i]) = a THEN 1 ELSE 0

\* C3: whenever setAnimation(player, animation) gives the player an assignment other than
\* the one it has (another animation, or null), the player's rig is reset (joints by
\* resetJoints(), position and rotation to zero), whatever the other players are assigned.
C3_ChangeResetsRig ==
    [][(/\ last'.op = "setAnimation"
        /\ last'.animation # getAnimation(last'.player))
       => rigs'[last'.player] = ResetPlayer(rigs[last'.player])]_vars

\* C4: while setAnimation has not been called and the default player is the primary
\* player, the animation option of the constructor is what viewer.animation returns,
\* and every drawn frame calls its update on the primary player.
C4_CtorAnimationDrawn ==
    (ctorAnimation # NULL /\ playerObject = 1) =>
        /\ animation = ctorAnimation
        /\ last.op = "draw" => UpdateCount(last.calls, ctorAnimation, 1) >= 1

\* C5: after PlayerObject.resetJoints(), the position and the rotation of every
\* animatable handle equal those of a freshly constructed PlayerObject of the same
\* model type.
C5_ResetEqualsFresh ==
    rigLast = "resetJoints" =>
        \A h \in AnimatableHandles, k \in Kinds :
            rig.pose[h][k] = FreshPlayer(rig.slim).pose[h][k]

\* C6: after PlayerObject.resetJoints(), player.skin.position is (0, 8, 0).
C6_ResetRestoresSkinRoot ==
    rigLast = "resetJoints" => rig.pose["skin"].position = <<0, Units(8), 0>>

C8_ResetIdempotent == rigLast = "resetJoints" => PlayerObject_resetJoints(rig) = rig

\* C8 happens: on a rig that was written to, resetJoints() has run twice in a row.
C8_Witness == rigLast = "resetJoints" /\ rigPrev = "resetJoints" /\ writes > 0

\* C9: with auto-fit enabled and several players laid out, setAnimation on one of them
\* leaves the x position of every player as it was and makes exactly one
\* updateLayout() call.
C9_SetAnimationKeepsLayout ==
    [][(/\ last'.op = "setAnimation"
        /\ InPlayers(last'.player)
        /\ _autoFit
        /\ Len(players) > 1
        /\ LaidOut)
       => (/\ PlayerXs(rigs') = PlayerXs(rigs)
           /\ last'.layoutCalls = 1)]_vars

\* C10: setAnimation(p, a) changes the assignment of p alone: afterwards
\* getAnimation(p) is a, and getAnimation(q) of every other player q is what it was.
C10_SetAnimationAssignsOnlyP ==
    [][last'.op = "setAnimation"
       => (/\ (IF last'.player \in DOMAIN animations'
               THEN animations'[last'.player] ELSE NULL) = last'.animation
           /\ \A q \in (1..created) \ {last'.player} :
                 (IF q \in DOMAIN animations' THEN animations'[q] ELSE NULL)
                     = getAnimation(q))]_vars

\* C10 happens: setAnimation has assigned an animation to a player that is not the
\* primary player while another player holds a different animation.
C10_Witness ==
    /\ last.op = "setAnimation"
    /\ last.animation # NULL
    /\ last.player # playerObject
    /\ \E q \in DOMAIN animations : q # last.player /\ animations[q] # last.animation

\* C11: an assignment to modelType changes neither position nor rotation of any head,
\* body or leg group; and the assignment of "default" that follows an assignment of
\* "slim" to a default rig leaves the scale of every arm mesh and the position.x of
\* both upper arm pivots at the values of the constructed rig.
C11_ModelToggleRestoresArms ==
    [][rigLast' = "modelType"
       => (/\ \A h \in OtherSegments : rig'.pose[h] = rig.pose[h]
           /\ (rigLast = "modelType" /\ rigPrev = "default" /\ rig.slim /\ ~rig'.slim)
                 => (/\ rig'.scale = PlayerObject_new.scale
                     /\ \A h \in ArmPivots :
                           rig'.pose[h].position[1]
                               = PlayerObject_new.pose[h].position[1]))]_vars

\* C11 happens: a default rig was switched to slim and is back at default.
C11_Witness == rigLast = "modelType" /\ rigPrev = "slim" /\ ~rig.slim

\* C12: after an assignment to modelType, every mesh of an arm segment (upper arm,
\* forearm and lower arm, inner and outer layer, both arms) has the width of the
\* assigned model type.
C12_ModelTypeSetsAllArmWidths ==
    rigLast = "modelType" =>
        \A m \in AllArmMeshes : MeshWidth(rig, m) = ArmWidth(rig.slim, m)

\* C13: setInnerLayerVisible(v) leaves the visible flag of every inner layer mesh (head,
\* body, and the upper, elbow or knee and lower segments of both arms and both legs) at
\* v, setOuterLayerVisible(v) does so for every outer layer mesh, and neither changes a
\* position or a rotation.
C13_LayerVisibleReachesEverySegment ==
    [][\A v \in BOOLEAN :
        /\ (rigLast' = "setInnerLayerVisible" /\ rigArg' = BoolArg(v))
              => (/\ \A m \in InnerMeshes : rig'.visible[m] = v
                  /\ rig'.pose = rig.pose)
        /\ (rigLast' = "setOuterLayerVisible" /\ rigArg' = BoolArg(v))
              => (/\ \A m \in OuterMeshes : rig'.visible[m] = v
                  /\ rig'.pose = rig.pose)]_vars

\* C14: after player.backEquipment = v, for v null, "cape" or "elytra", the cape is
\* visible exactly when v is "cape", the elytra exactly when v is "elytra" (so never
\* both), and the getter returns v.
C14_BackEquipmentExclusive ==
    rigLast = "backEquipment" =>
        /\ rig.visible["cape"] = (rigArg = "cape")
        /\ rig.visible["elytra"] = (rigArg = "elytra")
        /\ ~(rig.visible["cape"] /\ rig.visible["elytra"])
        /\ PlayerObject_backEquipment(rig) = rigArg

\* C14 happens: the elytra was chosen while the cape was shown.
C14_Witness == rigLast = "backEquipment" /\ rigArg = "elytra" /\ rigPrev = "cape"

\* C15: in every limb the elbow or knee is a descendant of the shoulder or hip pivot and
\* the lower pivot a descendant of the elbow or knee, and every node below the player
\* root has exactly one parent; so a step that changes nothing but the rotation of an
\* elbow, knee or lower pivot changes neither the position of the limb's root part nor
\* what places any ancestor of the rotated node in the world.
C15_MidLimbRotationIsLocal ==
    [][/\ LimbsAreChains
       /\ \A l \in Limbs : \A j \in {l.joint, l.lowerPivot} :
            (/\ rig' # rig
             /\ rig' = [rig EXCEPT !.pose[j].rotation = rig'.pose[j].rotation])
            => (/\ l.root \in Ancestors(j)
                /\ rig'.pose[l.root].position = rig.pose[l.root].position
                /\ \A a \in Ancestors(j) :
                      WorldTransform(rig', a) = WorldTransform(rig, a))]_vars

\* C15 happens: a caller has rotated an elbow, a knee or a lower pivot.
C15_Witness ==
    /\ rigLast = "write"
    /\ \E l \in Limbs : \E j \in {l.joint, l.lowerPivot} : rig.pose[j].rotation # Zero3

C17_NoSkinShowsPlaceholder ==
    \A i \in 1..Len(players) :
        rigs[players[i]].skinMap # "image"
            => (/\ rigs[players[i]].visible["skin"]
                /\ rigs[players[i]].skinMap = "placeholder")

TimeSorted(kfs) == \A i \in 1..(Len(kfs) - 1) : kfs[i].time <= kfs[i + 1].time

\* Keyframes of one time say one rotation: what two keyframes of the same path and
\* time with different rotations give is left open.
Unambiguous(kfs) ==
    \A i, j \in 1..Len(kfs) : kfs[i].time = kfs[j].time => kfs[i].rotation = kfs[j].rotation

\* Rotation r is the linear interpolation at time t between keyframes f0 and f1 of
\* different times: (r - r0) * (t1 - t0) = (r1 - r0) * (t - t0) in every component.
IsLinearBetween(r, f0, f1, t) ==
    \A c \in 1..3 :
        (r[c] - f0.rotation[c]) * (f1.time - f0.time)
            = (f1.rotation[c] - f0.rotation[c]) * (t - f0.time)

KeyframeAnimations ==
    {loadedAnimation[i] : i \in 1..Len(loadedAnimation)}
        \cup (IF keyframes = <<>> THEN {} ELSE {KeyframeAnimation_new(BuildData(keyframes))})

C21_RemovedPlayerHasNoAnimation ==
    /\ [][\A p \in 1..created :
            (InPlayers(p) /\ ~(\E i \in 1..Len(players') : players'[i] = p))
                => (p \notin DOMAIN animations')]_vars
    /\ [](last.op = "draw" =>
            \A i \in 1..Len(last.calls) : InPlayers(last.calls[i][2]))

\* C22: between operations, the animation draw() applies for the primary player,
\* _animation, is getAnimation(playerObject), whatever the constructor was given and
\* whichever of setAnimation, addPlayer and removePlayer were called.
C22_AnimationIsPrimaryAssignment == _animation = getAnimation(playerObject)

\* C23: whatever addPlayer and removePlayer calls were made, the players list is not
\* empty, and playerObject is a player of the list whose canvases and textures are in
\* the viewer's maps.
C23_AlwaysAPrimaryPlayer ==
    /\ players # <<>>
    /\ InPlayers(playerObject)
    /\ textures[playerObject].canvases
    /\ \A k \in TextureKinds : textures[playerObject][k] # "absent"

\* The loadSkin calls for player p that returned a promise.
SkinLoadsOf(p) == {i \in 1..Len(loads) : loads[i].kind = "skin" /\ loads[i].player = p}

\* C27: when several loadSkin calls with URL, File or Blob sources were made for a
\* player of a viewer that is not disposed, and all of them have settled, the skin of
\* the player is the image of the call made last, in whatever order the images were
\* loaded.
C27_LastIssuedSkinWins ==
    \A p \in 1..created :
        (/\ InPlayers(p)
         /\ ~_disposed
         /\ Cardinality(SkinLoadsOf(p)) >= 2
         /\ SkinLoadsOf(p) \subseteq settled)
            => rigs[p].skinMap =
                  loads[CHOOSE i \in SkinLoadsOf(p) : \A j \in SkinLoadsOf(p) : j <= i].source

\* C28: when the image of a loadSkin, loadCape or loadEars call is loaded after the
\* player of the call was removed or after dispose(), the step changes no player, no
\* texture and no other state of the viewer, and no error is raised.
C28_LateLoadChangesNothing ==
    [][\A i \in (1..Len(loads)) \ settled :
          (i \in settled' /\ (~InPlayers(loads[i].player) \/ _disposed))
              => (/\ rigs' = rigs
                  /\ textures' = textures
                  /\ errors' = errors
                  /\ players' = players
                  /\ animations' = animations)]_vars

\* C29: after dispose(), and for a player that was removed, no texture made for the
\* player is live and the viewer's maps hold no live texture for it; and no player
\* ever has more than one live skin texture.
C29_TexturesAreDisposed ==
    \A p \in DOMAIN textures :
        /\ (_disposed \/ ~InPlayers(p)) =>
              \A k \in TextureKinds : textures[p].live[k] = 0 /\ textures[p][k] # "live"
        /\ textures[p].live["skin"] <= 1

C30_BuiltTimesStartAtZeroAndIncrease ==
    keyframes # <<>> =>
        LET d == BuildData(keyframes).keyframes
        IN  /\ d[1].time = 0
            /\ \A i \in 1..Len(d) : d[i].time >= 0
            /\ \A i \in 1..(Len(d) - 1) : d[i].time < d[i + 1].time
            /\ \A k \in 1..Len(keyframes) :
                  \E i \in 1..Len(d) :
                      /\ d[i].time = Seconds(keyframes[k].time - keyframes[1].time)
                      /\ keyframes[k].bone \in DOMAIN d[i].bones

====
